---- MODULE Spec2Model ----
(***************************************************************************)
(* A model of the radem-examples notebooks: the IREM/RADEM pipeline        *)
(*   Acquire (wget mirror + raw symlink)  ->  Extract (gunzip)             *)
(*   ->  Ingest & Normalize (radem.handlers)  ->  Persist & Reload.        *)
(* Notebook cells are actions; a cell that raises leaves the variables it  *)
(* had not assigned yet untouched.  Python's None is the empty sequence,   *)
(* a bound name holds a one-element sequence.                              *)
(***************************************************************************)
EXTENDS Integers, Sequences, FiniteSets, TLC

VARIABLES
    df,          \* notebook variable df (sc_df in the RADEM notebook)
    hdf5Dir,     \* files of DATA_HDF5_DIR: file name -> (key -> stored frame)
    df_hdf,      \* notebook variable df_hdf / sc_df_hdf
    csvDir,      \* files of DATA_CSV_DIR: file name -> text table
    df_csv,      \* notebook variable df_csv / sc_df_csv
    parseErr,    \* the library's float parser: written value -> its error
    printed,     \* what the last executed cell printed (or the error it raised)
    lastCell,    \* the cell executed last
    extractedCdfs, \* decoded files of DATA_EXTRACTED_DIR: name -> records
    from_date,   \* from_date=date(...) of the option 2 and option 3 cells
    to_date,     \* to_date=date(...) of the option 2 and option 3 cells
    dedupKeep,   \* which duplicate the library keeps: "first" or "last"
    sc_cdfs,     \* notebook variable sc_cdfs (cdfs in the IREM notebook)
    hk_cdfs,     \* notebook variable hk_cdfs
    sc_cdf,      \* notebook variable sc_cdf (RADEM option 3)
    hk_cdf,      \* notebook variable hk_cdf (RADEM option 3)
    fs,          \* the files below DATA_DIR: path -> node
    remote,      \* the archive files of the remote repository: path -> node
    acquireRuns, \* how often the download cell has run
    stdout,      \* the lines the extract cell printed
    extractStatus, \* how the extract cell ended: "", "done" or the exception
    START_DATE,  \* notebook global START_DATE of the trajectories notebook
    END_DATE,    \* notebook global END_DATE
    INTERVAL_TIME, \* notebook global INTERVAL_TIME
    defaults,    \* the default values bound to each defined function's parameters
    sun_tour,    \* notebook variable sun_tour
    sun_traj,    \* notebook variable sun_traj
    JUICE_KERNELS,   \* notebook globals JUICE_KERNELS_DIR, _MK and _VERSION
    INTEGRAL_KERNELS \* notebook globals INTEGRAL_KERNELS_DIR, _MK and _VERSION

persistVars == <<df, hdf5Dir, df_hdf, csvDir, df_csv, parseErr, printed, lastCell>>
ingestVars == <<extractedCdfs, from_date, to_date, dedupKeep,
                sc_cdfs, hk_cdfs, sc_cdf, hk_cdf>>
fsVars == <<fs, remote, acquireRuns, stdout, extractStatus>>
trajVars == <<START_DATE, END_DATE, INTERVAL_TIME, defaults, sun_tour, sun_traj,
              JUICE_KERNELS, INTEGRAL_KERNELS>>
vars == <<persistVars, ingestVars, fsVars, trajVars>>

None == <<>>
Some(x) == <<x>>

\* The trajectories notebook, when it is not the part in use: no cell of it
\* has run.
TrajIdle ==
    /\ START_DATE = None
    /\ END_DATE = None
    /\ INTERVAL_TIME = None
    /\ defaults = <<>>
    /\ sun_tour = None
    /\ sun_traj = None
    /\ JUICE_KERNELS = None
    /\ INTEGRAL_KERNELS = None

Put(f, k, v) == [x \in (DOMAIN f) \cup {k} |-> IF x = k THEN v ELSE f[x]]

-----------------------------------------------------------------------------
(* Parsed Tables                                                            *)

\* Largest time stamp of a table's index.
MaxTime == 2

\* Two of the science columns, in the order the DataFrame prints them.
Columns == <<"protons_bin_1", "electrons_bin_1">>

\* Cell values of one row (first rows of the printed science table).
RowValues == {<<14, 1>>, <<12, 3>>}

\* The strictly ascending sequence of the elements of a set of integers.
RECURSIVE Ascending(_)
Ascending(S) ==
    IF S = {} THEN <<>>
    ELSE LET m == CHOOSE x \in S : \A y \in S : x <= y
         IN  <<m>> \o Ascending(S \ {m})

Tables ==
    UNION { { [index |-> Ascending(T), columns |-> Columns, data |-> d] :
                d \in [1..Cardinality(T) -> RowValues] } :
            T \in SUBSET (1..MaxTime) }

-----------------------------------------------------------------------------
(* Persist & Reload: the binary store                                       *)

HdfPath == "example.hdf5"
DefaultKey == "data"

\* write_hdf: the frame is stored column by column under a key of the file;
\* other keys of the file are kept.
write_hdf(dir, t, path, key) ==
    LET stored == [axis0 |-> t.columns,
                   axis1 |-> t.index,
                   block0_values |->
                       [c \in 1..Len(t.columns) |->
                           [r \in 1..Len(t.index) |-> t.data[r][c]]]]
        old == IF path \in DOMAIN dir THEN dir[path] ELSE [k \in {} |-> None]
    IN  Put(dir, path, Put(old, key, stored))

\* A reader that loses the time index and numbers the rows instead.
read_hdf_noindex(dir, path, key) ==
    LET s == dir[path][key]
    IN  [index |-> [r \in 1..Len(s.axis1) |-> r],
         columns |-> s.axis0,
         data |-> [r \in 1..Len(s.axis1) |->
                      [c \in 1..Len(s.axis0) |-> s.block0_values[c][r]]]]

\* read_hdf: the frame under the key, rows rebuilt from the column blocks.
read_hdf(dir, path, key) ==
    LET s == dir[path][key]
    IN  [index |-> s.axis1,
         columns |-> s.axis0,
         data |-> [r \in 1..Len(s.axis1) |->
                      [c \in 1..Len(s.axis0) |-> s.block0_values[c][r]]]]

HdfReadable(dir, path, key) ==
    path \in DOMAIN dir /\ key \in DOMAIN dir[path]

-----------------------------------------------------------------------------
(* The round-trip check  print(all(df_hdf == df))                           *)

\* DataFrame.__eq__ compares only identically-labeled frames.
IndexedSame(a, b) == a.index = b.index /\ a.columns = b.columns

\* df_hdf == df : a frame of booleans with the same labels.
DataFrameEq(a, b) ==
    [index |-> a.index,
     columns |-> a.columns,
     data |-> [r \in 1..Len(a.index) |->
                  [c \in 1..Len(a.columns) |-> a.data[r][c] = b.data[r][c]]]]

\* Iterating a DataFrame yields its column labels.
PyIter(frame) == frame.columns

\* Truth value of a str: non-empty.
Truthy(label) == label /= ""

\* The builtin all() over an iterable.
PyAll(items) == \A i \in 1..Len(items) : Truthy(items[i])

PyStr(b) == IF b THEN "True" ELSE "False"

\* Two identically-labeled tables that differ in some cell.
CellDiffers(a, b) ==
    /\ IndexedSame(a, b)
    /\ \E r \in 1..Len(a.index) : \E c \in 1..Len(a.columns) :
          a.data[r][c] /= b.data[r][c]

\* The text store before any of its cells has run.
TextIdle ==
    /\ csvDir = [f \in {} |-> None]
    /\ df_csv = None
    /\ parseErr = [v \in {} |-> 0]

\* The file system part before any of its cells has run.
FsIdle ==
    /\ fs = [p \in {} |-> None]
    /\ remote = [p \in {} |-> None]
    /\ acquireRuns = 0
    /\ stdout = <<>>
    /\ extractStatus = ""

\* The Ingest part before any of its cells has run, on an empty directory.
IngestIdle ==
    /\ extractedCdfs = [n \in {} |-> None]
    /\ from_date = 1 /\ to_date = 1
    /\ dedupKeep = "first"
    /\ sc_cdfs = None /\ hk_cdfs = None
    /\ sc_cdf = None /\ hk_cdf = None

-----------------------------------------------------------------------------
(* Cells of the Persist & Reload part                                       *)

\* The convert cell re-run on other handles: df is rebound to its result.
ConvertCellAny ==
    /\ \E t \in Tables : df' = Some(t)
    /\ printed' = "table"
    /\ lastCell' = "convert"
    /\ UNCHANGED <<hdf5Dir, df_hdf, csvDir, df_csv, parseErr, ingestVars, fsVars, trajVars>>

\* radem.handlers.write_hdf(df, DATA_HDF5_DIR / "example.hdf5")
WriteHdfCell ==
    /\ df /= None
    /\ hdf5Dir' = write_hdf(hdf5Dir, df[1], HdfPath, DefaultKey)
    /\ printed' = ""
    /\ lastCell' = "write_hdf"
    /\ UNCHANGED <<df, df_hdf, csvDir, df_csv, parseErr, ingestVars, fsVars, trajVars>>

\* df_hdf = radem.handlers.read_hdf(...); print(all(df_hdf == df))
ReadHdfCell ==
    /\ lastCell' = "read_hdf"
    /\ UNCHANGED <<df, hdf5Dir, csvDir, df_csv, parseErr, ingestVars, fsVars, trajVars>>
    /\ IF ~HdfReadable(hdf5Dir, HdfPath, DefaultKey)
       THEN /\ printed' = "FileNotFoundError"
            /\ UNCHANGED df_hdf
       ELSE LET t == read_hdf(hdf5Dir, HdfPath, DefaultKey)
            IN  /\ df_hdf' = Some(t)
                /\ printed' =
                      IF df = None THEN "NameError"
                      ELSE IF ~IndexedSame(t, df[1]) THEN "ValueError"
                      ELSE PyStr(PyAll(PyIter(DataFrameEq(t, df[1]))))

InitPersist ==
    /\ TrajIdle
    /\ df \in {Some(t) : t \in Tables}
    /\ hdf5Dir = [f \in {} |-> None]
    /\ df_hdf = None
    /\ printed = ""
    /\ lastCell = "convert"
    /\ TextIdle
    /\ IngestIdle
    /\ FsIdle

NextPersist == ConvertCellAny \/ WriteHdfCell \/ ReadHdfCell

SpecPersist == InitPersist /\ [][NextPersist]_vars

-----------------------------------------------------------------------------
(* C1: when the table read back from the HDF5 store differs from df in a    *)
(* cell value, the check print(all(df_hdf == df)) that follows the read     *)
(* does not print True.                                                     *)
C1_MismatchReported ==
    (lastCell = "read_hdf" /\ df /= None /\ df_hdf /= None
        /\ CellDiffers(df_hdf[1], df[1]))
    => printed /= "True"

(* C2: read_hdf(write_hdf(t, path)) = t for every Parsed Table t: the same  *)
(* time index, the same column order and the same value in every cell,      *)
(* whatever the store held before.                                          *)
C2_BinaryRoundTrip ==
    df /= None =>
        read_hdf(write_hdf(hdf5Dir, df[1], HdfPath, DefaultKey),
                 HdfPath, DefaultKey) = df[1]

\* A table of two rows was written, read back and found equal.
C2_Witness ==
    /\ lastCell = "read_hdf"
    /\ df_hdf /= None /\ df_hdf = df
    /\ Len(df[1].index) = 2
    /\ df[1].data[1] /= df[1].data[2]

-----------------------------------------------------------------------------
(* Ingest & Normalize: the radem.handlers boundary                          *)

\* Largest embedded date of a decoded file.
MaxDate == 3

Kinds == {"science", "housekeeping"}

\* A decoded file's name embeds its kind and its date.
CdfName(kind, date) == <<kind, date>>
KindOf(name) == name[1]
DateOf(name) == name[2]

\* One record of a decoded file: its time stamp and its values, which tell
\* the file and the position the record came from.
Rec(t, date, pos) == [time |-> t, vals |-> <<date, pos>>]

\* The records of the file of a day.  "asc": the day's two time stamps in
\* order; "over": out of order, and overlapping the first time stamp of the
\* next day.
DayRecords(date, shape) ==
    IF shape = "asc"
    THEN <<Rec(2 * date - 1, date, 1), Rec(2 * date, date, 2)>>
    ELSE <<Rec(2 * date + 1, date, 1), Rec(2 * date, date, 2)>>

\* What a day may have left in the directory: nothing, a science file out
\* of order, or ("both") a science file in order and a housekeeping file.
DayOptions == {"none", "sc_over", "both"}

DirOf(choice) ==
    LET names ==
            { CdfName("science", d) :
                d \in {x \in DOMAIN choice :
                         choice[x] \in {"sc_over", "both"}} }
            \cup
            { CdfName("housekeeping", d) :
                d \in {x \in DOMAIN choice : choice[x] = "both"} }
    IN  [n \in names |->
            IF KindOf(n) = "science" /\ choice[DateOf(n)] = "sc_over"
            THEN DayRecords(DateOf(n), "over")
            ELSE DayRecords(DateOf(n), "asc")]

\* Directory listings come back sorted by name: by kind, then by date.
NameLess(a, b) ==
    \/ (KindOf(a) = "housekeeping" /\ KindOf(b) = "science")
    \/ (KindOf(a) = KindOf(b) /\ DateOf(a) < DateOf(b))

RECURSIVE SortedNames(_)
SortedNames(S) ==
    IF S = {} THEN <<>>
    ELSE LET m == CHOOSE x \in S : \A y \in S \ {x} : NameLess(x, y)
         IN  <<m>> \o SortedNames(S \ {m})

\* from_date <= d <= to_date; a bound that is None does not restrict.
InRange(d, from, to) ==
    /\ (from = None \/ from[1] <= d)
    /\ (to = None \/ d <= to[1])

\* A date filter that leaves the day of to_date out.
InRangeExclusive(d, from, to) ==
    /\ (from = None \/ from[1] <= d)
    /\ (to = None \/ d < to[1])

\* A listing that leaves the day of to_date out.
get_cdf_paths_exclusive(dir, kind, from, to) ==
    SelectSeq(SortedNames(DOMAIN dir),
              LAMBDA n : KindOf(n) = kind /\ InRangeExclusive(DateOf(n), from, to))

\* get_radem_science_cdf_paths / get_radem_housekeeping_cdf_paths /
\* get_irem_cdf_paths: the names of the kind whose date is in the range.
get_cdf_paths(dir, kind, from, to) ==
    SelectSeq(SortedNames(DOMAIN dir),
              LAMBDA n : KindOf(n) = kind /\ InRange(DateOf(n), from, to))

\* One handle per file.
OpenCdf(dir, name) == [path |-> name, records |-> dir[name]]

\* read_radem_cdfs(paths): the given files, in the given order.
read_cdfs_paths(dir, paths) ==
    [i \in 1..Len(paths) |-> OpenCdf(dir, paths[i])]

\* read_radem_science_cdfs(dir, from_date, to_date): walks the directory
\* and opens every file of the kind whose date is in the range.
RECURSIVE read_cdfs_walk(_, _, _, _, _)
read_cdfs_walk(dir, listing, kind, from, to) ==
    IF listing = <<>> THEN <<>>
    ELSE LET n == Head(listing)
             rest == read_cdfs_walk(dir, Tail(listing), kind, from, to)
         IN  IF KindOf(n) = kind /\ InRange(DateOf(n), from, to)
             THEN <<OpenCdf(dir, n)>> \o rest
             ELSE rest

read_cdfs_dir(dir, kind, from, to) ==
    read_cdfs_walk(dir, SortedNames(DOMAIN dir), kind, from, to)

\* All records of the handles, in the order of the handles.
RECURSIVE ConcatRecords(_)
ConcatRecords(handles) ==
    IF handles = <<>> THEN <<>>
    ELSE Head(handles).records \o ConcatRecords(Tail(handles))

\* Of the records with one time stamp the first (or the last) is kept.
DropDuplicates(recs, keep) ==
    LET kept(i) ==
            IF keep = "first"
            THEN \A j \in 1..(i - 1) : recs[j].time /= recs[i].time
            ELSE \A j \in (i + 1)..Len(recs) : recs[j].time /= recs[i].time
        RECURSIVE from(_)
        from(i) == IF i > Len(recs) THEN <<>>
                   ELSE IF kept(i) THEN <<recs[i]>> \o from(i + 1)
                   ELSE from(i + 1)
    IN  from(1)

\* Insertion sort by time stamp.
RECURSIVE InsertByTime(_, _)
InsertByTime(r, sorted) ==
    IF sorted = <<>> THEN <<r>>
    ELSE IF r.time < Head(sorted).time THEN <<r>> \o sorted
    ELSE <<Head(sorted)>> \o InsertByTime(r, Tail(sorted))

RECURSIVE SortByTime(_)
SortByTime(recs) ==
    IF recs = <<>> THEN <<>>
    ELSE InsertByTime(Head(recs), SortByTime(Tail(recs)))

ToTable(recs) ==
    [index |-> [i \in 1..Len(recs) |-> recs[i].time],
     columns |-> Columns,
     data |-> [i \in 1..Len(recs) |-> recs[i].vals]]

\* A conversion that merges and sorts but keeps duplicate time stamps.
normalize_nodedup(handles, keep) ==
    ToTable(SortByTime(ConcatRecords(handles)))

\* convert_radem_science_cdfs_to_df / convert_irem_cdfs_to_df:
\* merges, removes duplicates, sorts, converts.
normalize(handles, keep) ==
    ToTable(SortByTime(DropDuplicates(ConcatRecords(handles), keep)))

StrictlyAscending(index) ==
    \A i \in 1..(Len(index) - 1) : index[i] < index[i + 1]

-----------------------------------------------------------------------------
(* Cells of the Ingest part                                                 *)

DATA_EXTRACTED_DIR == extractedCdfs

\* Option 1: read of the whole directory.
Option1Handles(kind) == read_cdfs_dir(DATA_EXTRACTED_DIR, kind, None, None)

\* Option 2: get the paths of the range, then read them.
Option2Paths(kind) ==
    get_cdf_paths(DATA_EXTRACTED_DIR, kind, Some(from_date), Some(to_date))
Option2Handles(kind) == read_cdfs_paths(DATA_EXTRACTED_DIR, Option2Paths(kind))

\* Option 3 with the range left out of the call.
Option3Handles_norange(kind) ==
    read_cdfs_dir(DATA_EXTRACTED_DIR, kind, None, None)

\* Option 3: read of the directory with the range.
Option3Handles(kind) ==
    read_cdfs_dir(DATA_EXTRACTED_DIR, kind, Some(from_date), Some(to_date))

\* The records of a decoded file that is no valid CDF.
Malformed == <<[time |-> 0, vals |-> <<0, 0>>]>>

\* A read that opens every file, whatever it holds.
ReadRaises_never(handles) == FALSE

\* The read raises when one of the files it opens is malformed.
ReadRaises(handles) ==
    \E i \in 1..Len(handles) : handles[i].records = Malformed

\* What no cell of the Ingest part assigns.
ingestFixed == <<extractedCdfs, from_date, to_date, dedupKeep,
                 hdf5Dir, df_hdf, csvDir, df_csv, parseErr, fsVars, trajVars>>

\* What a cell with two reads and the print of the two lengths leaves: a
\* read that raises ends the cell, the names assigned before stay bound.
AfterReads(sc, hk, sc_old, hk_old) ==
    IF ReadRaises(sc)
    THEN [sc |-> sc_old, hk |-> hk_old, out |-> "ParseError"]
    ELSE IF ReadRaises(hk)
    THEN [sc |-> Some(sc), hk |-> hk_old, out |-> "ParseError"]
    ELSE [sc |-> Some(sc), hk |-> Some(hk), out |-> "lengths"]

ReadOption1Cell ==
    /\ \E sc \in {Option1Handles("science")} :
       \E hk \in {Option1Handles("housekeeping")} :
       \E r \in {AfterReads(sc, hk, sc_cdfs, hk_cdfs)} :
          sc_cdfs' = r.sc /\ hk_cdfs' = r.hk /\ printed' = r.out
    /\ lastCell' = "option1"
    /\ UNCHANGED <<sc_cdf, hk_cdf, df, ingestFixed>>

ReadOption2Cell ==
    /\ \E sc \in {Option2Handles("science")} :
       \E hk \in {Option2Handles("housekeeping")} :
       \E r \in {AfterReads(sc, hk, sc_cdfs, hk_cdfs)} :
          sc_cdfs' = r.sc /\ hk_cdfs' = r.hk /\ printed' = r.out
    /\ lastCell' = "option2"
    /\ UNCHANGED <<sc_cdf, hk_cdf, df, ingestFixed>>

ReadOption3Cell ==
    /\ \E sc \in {Option3Handles("science")} :
       \E hk \in {Option3Handles("housekeeping")} :
       \E r \in {AfterReads(sc, hk, sc_cdf, hk_cdf)} :
          sc_cdf' = r.sc /\ hk_cdf' = r.hk /\ printed' = r.out
    /\ lastCell' = "option3"
    /\ UNCHANGED <<sc_cdfs, hk_cdfs, df, ingestFixed>>

\* sc_df = radem.handlers.convert_radem_science_cdfs_to_df(sc_cdfs)
\* print(sc_df)
ConvertCell ==
    /\ sc_cdfs /= None
    /\ df' = Some(normalize(sc_cdfs[1], dedupKeep))
    /\ printed' = "table"
    /\ lastCell' = "convert"
    /\ UNCHANGED <<sc_cdfs, hk_cdfs, sc_cdf, hk_cdf, ingestFixed>>

PersistIdle ==
    /\ hdf5Dir = [f \in {} |-> None]
    /\ df_hdf = None
    /\ TextIdle
    /\ printed = ""
    /\ lastCell = ""

InitIngest ==
    /\ TrajIdle
    /\ extractedCdfs \in {DirOf(choice) : choice \in [1..MaxDate -> DayOptions]}
    /\ from_date \in 1..MaxDate
    /\ to_date \in 1..MaxDate
    /\ dedupKeep \in {"first", "last"}
    /\ sc_cdfs = None /\ hk_cdfs = None
    /\ sc_cdf = None /\ hk_cdf = None
    /\ df = None
    /\ PersistIdle
    /\ FsIdle

NextIngest ==
    ReadOption1Cell \/ ReadOption2Cell \/ ReadOption3Cell \/ ConvertCell

SpecIngest == InitIngest /\ [][NextIngest]_vars

-----------------------------------------------------------------------------
Range(s) == {s[i] : i \in 1..Len(s)}

InWindow(n) == from_date <= DateOf(n) /\ DateOf(n) <= to_date

NormalizeOf(handles) == normalize(handles, dedupKeep)

RECURSIVE Reverse(_)
Reverse(s) == IF s = <<>> THEN <<>> ELSE Reverse(Tail(s)) \o <<Head(s)>>

(* C3 as stated: for every set of decoded files and every date range, the   *)
(* three ingest call patterns (whole directory; paths of the range, then    *)
(* read; directory with the range) normalize to tables with identical rows  *)
(* (looked at once the option cells and the convert cell have run).         *)
C3_ThreePatternsIdentical ==
    (sc_cdfs /= None /\ sc_cdf /= None /\ df /= None) =>
        /\ NormalizeOf(Option1Handles("science"))
              = NormalizeOf(Option2Handles("science"))
        /\ NormalizeOf(Option2Handles("science"))
              = NormalizeOf(Option3Handles("science"))

(* C3 amended: the two patterns that are given the range (paths of the      *)
(* range, then read; directory with the range) yield the same handles and   *)
(* normalize to tables with identical rows; the read of the whole directory *)
(* takes no range and agrees with them when every decoded file of the kind  *)
(* has its date inside the range.                                           *)
C3_RangePatternsIdentical ==
    /\ \A k \in Kinds : Option2Handles(k) = Option3Handles(k)
    /\ NormalizeOf(Option2Handles("science")) = NormalizeOf(Option3Handles("science"))
    /\ (\A n \in DOMAIN extractedCdfs : KindOf(n) = "science" => InWindow(n))
          => NormalizeOf(Option1Handles("science"))
                = NormalizeOf(Option3Handles("science"))

\* Options 2 and 3 have run on a directory with science files inside and
\* outside the range, and the convert cell has built a non-empty table.
C3_Witness ==
    /\ sc_cdfs = Some(Option2Handles("science"))
    /\ sc_cdf = Some(Option3Handles("science"))
    /\ sc_cdf = sc_cdfs
    /\ Len(sc_cdfs[1]) >= 2
    /\ \E n \in DOMAIN extractedCdfs : KindOf(n) = "science" /\ ~InWindow(n)
    /\ df = Some(NormalizeOf(sc_cdfs[1]))
    /\ Len(df[1].index) >= 3

HasDuplicateTime(recs) ==
    \E i, j \in 1..Len(recs) : i < j /\ recs[i].time = recs[j].time

HasDisorder(recs) ==
    \E i, j \in 1..Len(recs) : i < j /\ recs[i].time > recs[j].time

(* C5: the table the conversion returns has strictly ascending time-index   *)
(* values, whatever handles it is given (overlapping or repeated time       *)
(* stamps, any order of the handles): sorted by time, no time stamp twice.  *)
C5_StrictlyAscendingIndex ==
    /\ df /= None => StrictlyAscending(df[1].index)
    /\ StrictlyAscending(NormalizeOf(Option1Handles("science")).index)
    /\ StrictlyAscending(NormalizeOf(Reverse(Option1Handles("science"))).index)

\* The convert cell has run on handles whose records repeat a time stamp
\* and are out of order.
C5_Witness ==
    /\ sc_cdfs /= None
    /\ HasDuplicateTime(ConcatRecords(sc_cdfs[1]))
    /\ HasDisorder(ConcatRecords(sc_cdfs[1]))
    /\ df = Some(NormalizeOf(sc_cdfs[1]))
    /\ Len(df[1].index) >= 4

-----------------------------------------------------------------------------
(* Names, strings and paths                                                 *)
(* A name is a string; where the code looks at its characters (endswith,    *)
(* Path.stem, sorted) the name's spelling is used.  A path is the sequence  *)
(* of its names below DATA_DIR.                                             *)

SpelledNames ==
    {"", "x", "x.y", "x.cdf", "x.y.cdf", ".cdf",
     "x.cdf.gz", "x.y.cdf.gz", ".cdf.gz", "x.gz", "a", "a-b",
     "sub", "irem", "summaryplots", "p.gz", "raw", "extracted"}

Chars(name) ==
    CASE name = "" -> <<>>
      [] name = "x" -> <<"x">>
      [] name = "x.y" -> <<"x", ".", "y">>
      [] name = "x.cdf" -> <<"x", ".", "c", "d", "f">>
      [] name = "x.y.cdf" -> <<"x", ".", "y", ".", "c", "d", "f">>
      [] name = ".cdf" -> <<".", "c", "d", "f">>
      [] name = "x.cdf.gz" -> <<"x", ".", "c", "d", "f", ".", "g", "z">>
      [] name = "x.y.cdf.gz" -> <<"x", ".", "y", ".", "c", "d", "f", ".", "g", "z">>
      [] name = ".cdf.gz" -> <<".", "c", "d", "f", ".", "g", "z">>
      [] name = "x.gz" -> <<"x", ".", "g", "z">>
      [] name = "a" -> <<"a">>
      [] name = "a-b" -> <<"a", "-", "b">>
      [] name = "sub" -> <<"s", "u", "b">>
      [] name = "irem" -> <<"i", "r", "e", "m">>
      [] name = "summaryplots" -> <<"s", "u", "m", "m", "a", "r", "y", "p", "l", "o", "t", "s">>
      [] name = "p.gz" -> <<"p", ".", "g", "z">>
      [] name = "raw" -> <<"r", "a", "w">>
      [] name = "extracted" -> <<"e", "x", "t", "r", "a", "c", "t", "e", "d">>

FromChars(cs) == CHOOSE n \in SpelledNames : Chars(n) = cs

\* ord() of a character.
Ord(c) ==
    CASE c = "-" -> 45
      [] c = "." -> 46
      [] c = "/" -> 47
      [] c = "a" -> 97
      [] c = "b" -> 98
      [] c = "c" -> 99
      [] c = "d" -> 100
      [] c = "e" -> 101
      [] c = "f" -> 102
      [] c = "g" -> 103
      [] c = "i" -> 105
      [] c = "l" -> 108
      [] c = "m" -> 109
      [] c = "o" -> 111
      [] c = "p" -> 112
      [] c = "r" -> 114
      [] c = "s" -> 115
      [] c = "t" -> 116
      [] c = "u" -> 117
      [] c = "w" -> 119
      [] c = "x" -> 120
      [] c = "y" -> 121
      [] c = "z" -> 122

\* str.__lt__: by code point, a proper prefix first.
RECURSIVE StrLess(_, _)
StrLess(a, b) ==
    IF b = <<>> THEN FALSE
    ELSE IF a = <<>> THEN TRUE
    ELSE IF Head(a) /= Head(b) THEN Ord(Head(a)) < Ord(Head(b))
    ELSE StrLess(Tail(a), Tail(b))

\* PurePath.__lt__: the lists of the paths' parts are compared, part by part.
RECURSIVE PartsLess(_, _)
PartsLess(p, q) ==
    IF q = <<>> THEN FALSE
    ELSE IF p = <<>> THEN TRUE
    ELSE IF Head(p) /= Head(q) THEN StrLess(Chars(Head(p)), Chars(Head(q)))
    ELSE PartsLess(Tail(p), Tail(q))

\* str(path): the parts joined with "/".
RECURSIVE PathChars(_)
PathChars(p) ==
    IF p = <<>> THEN <<>>
    ELSE IF Len(p) = 1 THEN Chars(p[1])
    ELSE Chars(Head(p)) \o <<"/">> \o PathChars(Tail(p))

\* A sort by the path strings.
RECURSIVE SortedPaths_by_string(_)
SortedPaths_by_string(S) ==
    IF S = {} THEN <<>>
    ELSE LET m == CHOOSE x \in S :
                    \A y \in S \ {x} : StrLess(PathChars(x), PathChars(y))
         IN  <<m>> \o SortedPaths_by_string(S \ {m})

\* sorted(<paths>)
RECURSIVE SortedPaths(_)
SortedPaths(S) ==
    IF S = {} THEN <<>>
    ELSE LET m == CHOOSE x \in S : \A y \in S \ {x} : PartsLess(x, y)
         IN  <<m>> \o SortedPaths(S \ {m})

\* str.endswith
EndsWith(s, suffix) ==
    /\ Len(s) >= Len(suffix)
    /\ SubSeq(s, Len(s) - Len(suffix) + 1, Len(s)) = suffix

CDF_GZ == <<".", "c", "d", "f", ".", "g", "z">>

\* str.rfind('.'), counted from 1; 0 when there is none.
RFindDot(s) ==
    IF \E i \in 1..Len(s) : s[i] = "."
    THEN CHOOSE i \in 1..Len(s) :
            s[i] = "." /\ \A j \in (i + 1)..Len(s) : s[j] /= "."
    ELSE 0

\* A stem that drops everything from the first dot on.
StemAllSuffixes(name) ==
    LET s == Chars(name)
        i == IF \E k \in 1..Len(s) : s[k] = "."
             THEN CHOOSE k \in 1..Len(s) :
                     s[k] = "." /\ \A j \in 1..(k - 1) : s[j] /= "."
             ELSE 0
    IN  IF i > 0 THEN FromChars(SubSeq(s, 1, i - 1)) ELSE name

\* PurePath.stem: the name without its last suffix; a leading dot or a
\* trailing dot starts no suffix.
Stem(name) ==
    LET s == Chars(name)
        i == RFindDot(s)
    IN  IF 1 < i /\ i < Len(s) THEN FromChars(SubSeq(s, 1, i - 1)) ELSE name

IsPrefix(p, q) == Len(p) <= Len(q) /\ SubSeq(q, 1, Len(p)) = p

Parent(p) == SubSeq(p, 1, Len(p) - 1)

-----------------------------------------------------------------------------
(* The file system below DATA_DIR                                           *)

NoContent == [fmt |-> "none", data |-> <<>>]
EmptyContent == [fmt |-> "plain", data |-> <<>>]

DirNode == [type |-> "dir", ts |-> 0, content |-> NoContent, target |-> <<>>]
LinkNode(target) ==
    [type |-> "link", ts |-> 0, content |-> NoContent, target |-> target]
FileNode(ts, content) ==
    [type |-> "file", ts |-> ts, content |-> content, target |-> <<>>]

\* A gzip archive of some data, and a file that is no valid gzip stream.
GzipOf(data) == [fmt |-> "gzip", data |-> data]
CorruptOf(data) == [fmt |-> "corrupt", data |-> data]

\* gzip.open(f).read(): the data of a valid stream; it raises otherwise.
GunzipOk(content) == content.fmt = "gzip"
Gunzip(content) == [fmt |-> "plain", data |-> content.data]

\* The path with every symbolic link on it followed.
RECURSIVE ResolveFrom(_, _, _)
ResolveFrom(f, cur, rest) ==
    IF rest = <<>> THEN cur
    ELSE LET nxt == Append(cur, Head(rest))
             real == IF nxt \in DOMAIN f /\ f[nxt].type = "link"
                     THEN f[nxt].target ELSE nxt
         IN  ResolveFrom(f, real, Tail(rest))

Resolve(f, path) == ResolveFrom(f, <<>>, path)

\* Path.exists(): follows links.
Exists(f, path) == Resolve(f, path) \in DOMAIN f

IsDir(f, path) == Exists(f, path) /\ f[Resolve(f, path)].type = "dir"

\* [ -L path ]: the path itself is a symbolic link.
IsLink(f, path) == path \in DOMAIN f /\ f[path].type = "link"

\* os.listdir(path): the exception it raises, or "ok".
ListDirError(f, path) ==
    IF ~Exists(f, path) THEN "FileNotFoundError"
    ELSE IF ~IsDir(f, path) THEN "NotADirectoryError"
    ELSE "ok"

\* os.listdir(path): the names in the directory.
ListDir(f, path) ==
    LET r == Resolve(f, path)
    IN  { q[Len(r) + 1] : q \in {x \in DOMAIN f : Len(x) = Len(r) + 1 /\ IsPrefix(r, x)} }

\* mkdir -p path
MkdirP(f, path) ==
    [q \in (DOMAIN f) \cup {SubSeq(path, 1, n) : n \in 0..Len(path)} |->
        IF q \in DOMAIN f THEN f[q] ELSE DirNode]

\* rm -rf path
RmRf(f, path) ==
    LET r == Append(Resolve(f, Parent(path)), path[Len(path)])
    IN  [q \in {x \in DOMAIN f : ~IsPrefix(r, x)} |-> f[q]]

-----------------------------------------------------------------------------
(* Extract: extract_and_process_files                                       *)

DATA_RAW_DIR == <<"raw">>
DATA_EXTRACTED_DIR_PATH == <<"extracted">>

\* filename.endswith(".cdf.gz")
IsCdfGz(filename) == EndsWith(Chars(filename), CDF_GZ)

\* The directories os.listdir(data_raw_dir) names.
RawDirnames(f, raw_dir) == ListDir(f, raw_dir)

\* The exceptions the listing of the archives can raise.
ListingErrors(f, raw_dir) ==
    IF ListDirError(f, raw_dir) /= "ok" THEN {ListDirError(f, raw_dir)}
    ELSE { ListDirError(f, Append(raw_dir, d)) : d \in RawDirnames(f, raw_dir) }
            \ {"ok"}

\* data_raw_dir / dirname / filename for the .cdf.gz names, as <<dirname, filename>>.
RawFilenames(f, raw_dir) ==
    UNION { { <<d, n>> : n \in {x \in ListDir(f, Append(raw_dir, d)) : IsCdfGz(x)} } :
            d \in RawDirnames(f, raw_dir) }

\* An output beside the archives, in the raw directory.
OutputFilename_in_raw(extracted_dir, filename) ==
    Append(DATA_RAW_DIR, Stem(filename))

\* output_filename = data_extracted_dir / filename.stem
OutputFilename(extracted_dir, filename) == Append(extracted_dir, Stem(filename))

\* A round that decompresses before it opens the output.
ExtractOne_read_first(st, raw_dir, extracted_dir, p) ==
    LET f == st.fs
        in_path == raw_dir \o p
        out_path == Append(extracted_dir, Stem(p[2]))
        printed1 == st.out \o <<<<"Extracting", in_path, out_path>>>> \o
                    (IF Exists(f, out_path)
                     THEN <<<<"Overriding", in_path>>>> ELSE <<>>)
        src == f[Resolve(f, in_path)]
    IN  IF ~GunzipOk(src.content)
        THEN [fs |-> f, out |-> printed1, status |-> "BadGzipFile"]
        ELSE [fs |-> Put(f, Resolve(f, out_path), FileNode(0, Gunzip(src.content))),
              out |-> printed1, status |-> ""]

\* A round that leaves an output that is already there as it is.
ExtractOne_keep_existing(st, raw_dir, extracted_dir, p) ==
    LET f == st.fs
        in_path == raw_dir \o p
        out_path == Append(extracted_dir, Stem(p[2]))
        printed1 == Append(st.out, <<"Extracting", in_path, out_path>>)
    IN  IF Exists(f, out_path)
        THEN [fs |-> f, out |-> printed1, status |-> ""]
        ELSE [fs |-> Put(f, Resolve(f, out_path),
                         FileNode(0, Gunzip(f[Resolve(f, in_path)].content))),
              out |-> printed1, status |-> ""]

\* One round of the loop.  st = [fs, out, status]; status "" while running.
ExtractOne(st, raw_dir, extracted_dir, p) ==
    LET f == st.fs
        in_path == raw_dir \o p
        out_path == OutputFilename(extracted_dir, p[2])
        out_real == Resolve(f, out_path)
        lines == <<<<"Extracting", in_path, out_path>>>> \o
                 (IF Exists(f, out_path)
                  THEN <<<<"Overriding", in_path>>>> ELSE <<>>)
        src == f[Resolve(f, in_path)]
        printed1 == st.out \o lines
    IN  IF src.type /= "file"
        THEN [fs |-> f, out |-> printed1, status |-> "IsADirectoryError"]
        ELSE IF ~IsDir(f, extracted_dir)
        THEN [fs |-> f, out |-> printed1, status |-> "FileNotFoundError"]
        ELSE IF Exists(f, out_path) /\ f[out_real].type /= "file"
        THEN [fs |-> f, out |-> printed1, status |-> "IsADirectoryError"]
        ELSE IF ~GunzipOk(src.content)
        THEN [fs |-> Put(f, out_real, FileNode(0, EmptyContent)),
              out |-> printed1, status |-> "BadGzipFile"]
        ELSE [fs |-> Put(f, out_real, FileNode(0, Gunzip(src.content))),
              out |-> printed1, status |-> ""]

\* A loop that returns after its first round.
ExtractLoop_first(st, raw_dir, extracted_dir, todo) ==
    IF todo = <<>> THEN [st EXCEPT !.status = "done"]
    ELSE LET nxt == ExtractOne(st, raw_dir, extracted_dir, Head(todo))
         IN  IF nxt.status /= "" THEN nxt ELSE [nxt EXCEPT !.status = "done"]

\* for filename in data_raw_filenames: ...   (an exception ends the loop)
RECURSIVE ExtractLoop(_, _, _, _)
ExtractLoop(st, raw_dir, extracted_dir, todo) ==
    IF todo = <<>> THEN [st EXCEPT !.status = "done"]
    ELSE LET nxt == ExtractOne(st, raw_dir, extracted_dir, Head(todo))
         IN  IF nxt.status /= "" THEN nxt
             ELSE ExtractLoop(nxt, raw_dir, extracted_dir, Tail(todo))

\* The results extract_and_process_files can have.
extract_and_process_files(f, raw_dir, extracted_dir) ==
    IF ListingErrors(f, raw_dir) /= {}
    THEN { [fs |-> f, out |-> <<>>, status |-> e] : e \in ListingErrors(f, raw_dir) }
    ELSE { ExtractLoop([fs |-> f, out |-> <<>>, status |-> ""],
                       raw_dir, extracted_dir,
                       SortedPaths(RawFilenames(f, raw_dir))) }

\* extract_and_process_files(DATA_RAW_DIR, DATA_EXTRACTED_DIR)
ExtractCell ==
    /\ \E res \in extract_and_process_files(fs, DATA_RAW_DIR, DATA_EXTRACTED_DIR_PATH) :
          /\ fs' = res.fs
          /\ stdout' = res.out
          /\ extractStatus' = res.status
    /\ lastCell' = "extract"
    /\ UNCHANGED <<remote, acquireRuns, df, hdf5Dir, df_hdf, csvDir, df_csv, parseErr,
                   printed, ingestVars, trajVars>>

-----------------------------------------------------------------------------
(* Extract on a raw directory the user filled                               *)

\* Most files of the raw directory.
MaxArchives == 2

ArchiveDirs == {"a", "a-b"}
ArchiveNames == {"x.cdf.gz", "x.y.cdf.gz", ".cdf.gz", "x.gz", "x.cdf"}

\* Where a file of the raw directory may lie: in a directory of the raw
\* directory, directly in the raw directory, or one directory deeper.
RawUniverse ==
    { <<d, n>> : d \in ArchiveDirs, n \in ArchiveNames }
    \cup { <<"x.cdf.gz">>, <<"a", "sub", "x.cdf.gz">> }

\* The tree with the given files below raw, and an empty extracted directory.
TreeOf(files, corrupt) ==
    LET dirs == {<<>>, DATA_RAW_DIR, DATA_EXTRACTED_DIR_PATH}
                \cup UNION { { DATA_RAW_DIR \o SubSeq(p, 1, n) :
                                 n \in 0..(Len(p) - 1) } : p \in files }
        paths == dirs \cup { DATA_RAW_DIR \o p : p \in files }
    IN  [q \in paths |->
            IF q \in dirs THEN DirNode
            ELSE LET p == SubSeq(q, 2, Len(q))
                 IN  FileNode(1, IF p \in corrupt THEN CorruptOf(<<p, 1>>)
                                 ELSE GzipOf(<<p, 1>>))]

\* Outputs an earlier run left in the extracted directory, with the data
\* the archive held then.
OldOutputs == {"x.cdf"}
StaleContent == [fmt |-> "plain", data |-> <<<<>>, 0>>]

TreeWithOutputs(files, corrupt, old) ==
    LET t == TreeOf(files, corrupt)
    IN  [q \in (DOMAIN t) \cup { Append(DATA_EXTRACTED_DIR_PATH, n) : n \in old } |->
            IF q \in DOMAIN t THEN t[q] ELSE FileNode(0, StaleContent)]

InitExtract ==
    /\ TrajIdle
    /\ \E files \in SUBSET RawUniverse :
          /\ Cardinality(files) <= MaxArchives
          /\ \E corrupt \in SUBSET files : \E old \in SUBSET OldOutputs :
                fs = TreeWithOutputs(files, corrupt, old)
    /\ remote = [p \in {} |-> None]
    /\ acquireRuns = 0
    /\ stdout = <<>>
    /\ extractStatus = ""
    /\ df = None
    /\ PersistIdle
    /\ IngestIdle

NextExtract == ExtractCell

SpecExtract == InitExtract /\ [][NextExtract]_vars

\* The .cdf.gz files that lie in a directory of the raw directory.
ProcessedArchives(f) ==
    { p \in DOMAIN f : Len(p) = 3 /\ p[1] = "raw" /\ f[p].type = "file"
                       /\ EndsWith(Chars(p[3]), CDF_GZ) }

\* The files below the raw directory with a .gz name.
AllArchives(f) ==
    { p \in DOMAIN f : Len(p) >= 2 /\ p[1] = "raw" /\ f[p].type = "file"
                       /\ EndsWith(Chars(p[Len(p)]), <<".", "g", "z">>) }

\* The "Extracting" lines of the output, as <<archive path, output path>>.
Extractions == { <<stdout[i][2], stdout[i][3]>> :
                    i \in {j \in 1..Len(stdout) : stdout[j][1] = "Extracting"} }

(* C9: for every archive extract_and_process_files processes, the output    *)
(* file name is the archive's file name with exactly the suffix .gz removed *)
(* and nothing else changed.                                                *)
C9_OutputNameStripsGz ==
    \A e \in Extractions :
        LET inName == e[1][Len(e[1])]
            outName == e[2][Len(e[2])]
        IN  /\ Chars(outName) \o <<".", "g", "z">> = Chars(inName)
            /\ Parent(e[2]) = DATA_EXTRACTED_DIR_PATH

\* Two archives whose names hold several dots were extracted.
C9_Witness ==
    /\ extractStatus = "done"
    /\ \E e1, e2 \in Extractions :
          /\ e1[1][3] = "x.y.cdf.gz" /\ e1[2] = <<"extracted", "x.y.cdf">>
          /\ e2[1][3] = ".cdf.gz" /\ e2[2] = <<"extracted", ".cdf">>
          /\ Exists(fs, e1[2]) /\ Exists(fs, e2[2])

HasCounterpart(f, p) ==
    LET s == Chars(p[Len(p)])
    IN  <<"extracted", FromChars(SubSeq(s, 1, Len(s) - 3))>> \in DOMAIN f

(* C10 as stated: after extract_and_process_files completes, every archive  *)
(* file below the raw directory has a decompressed counterpart in the       *)
(* output directory.                                                        *)
C10_EveryArchiveExtracted ==
    extractStatus = "done" => \A p \in AllArchives(fs) : HasCounterpart(fs, p)

(* C10 amended: after extract_and_process_files completes, every file named *)
(* *.cdf.gz that lies directly in a subdirectory of the raw directory has a *)
(* decompressed counterpart in the output directory (the data of an archive *)
(* of that name); .gz files with another name and files at another depth    *)
(* are not extracted.                                                       *)
C10_CdfGzOfSubdirsExtracted ==
    extractStatus = "done" =>
        \A p \in ProcessedArchives(fs) :
            /\ HasCounterpart(fs, p)
            /\ \E p2 \in ProcessedArchives(fs) :
                  /\ p2[3] = p[3]
                  /\ fs[<<"extracted", Stem(p[3])>>].content = Gunzip(fs[p2].content)

\* The cell completed on a raw directory with a .cdf.gz file in a
\* subdirectory (extracted) and a .gz file of another name (left alone).
C10_Witness ==
    /\ extractStatus = "done"
    /\ \E p \in ProcessedArchives(fs) : HasCounterpart(fs, p)
    /\ \E p \in AllArchives(fs) : ~HasCounterpart(fs, p)

\* The archive of the last "Extracting" line that names the output path.
LastArchiveFor(out) ==
    LET idx == { i \in 1..Len(stdout) :
                    stdout[i][1] = "Extracting" /\ stdout[i][3] = out }
        last == CHOOSE i \in idx : \A j \in idx : j <= i
    IN  stdout[last][2]

\* The "Overriding" lines of the output: the archives whose output was there.
Overridings == { stdout[i][2] :
                    i \in {j \in 1..Len(stdout) : stdout[j][1] = "Overriding"} }

(* C11: Extract always refreshes: an output that is already there, with any *)
(* content, is overwritten, so after a completed run (a first run over      *)
(* stale outputs, or a re-run on unchanged archives) every output holds     *)
(* exactly the decompression of its archive.                                *)
C11_AlwaysRefresh ==
    (extractStatus = "done" /\ lastCell = "extract") =>
        \A e \in Extractions :
            /\ Exists(fs, e[2])
            /\ fs[Resolve(fs, e[2])].content
                  = Gunzip(fs[Resolve(fs, LastArchiveFor(e[2]))].content)

\* A completed run that found the output of its one archive already there
\* and replaced what it held.
C11_Witness ==
    /\ extractStatus = "done"
    /\ Cardinality(Extractions) = 1
    /\ \E e \in Extractions :
          /\ e[1] \in Overridings
          /\ fs[e[2]].content = Gunzip(fs[e[1]].content)
          /\ fs[e[2]].content /= StaleContent

(* C12: two distinct archives below the raw directory never map to the     *)
(* same output file of the flat extracted directory, so within one run no   *)
(* decoded file is overwritten with the content of another archive.         *)
C12_NoOutputCollision ==
    \A e1, e2 \in Extractions : e1[2] = e2[2] => e1[1] = e2[1]

(* C14: Extract writes only inside its output directory: a run of the cell  *)
(* creates, changes and deletes no file outside the extracted directory     *)
(* (in particular none below the raw directory).                            *)
C14_WritesOnlyInExtracted ==
    [][ lastCell' = "extract" =>
          \A p \in (DOMAIN fs) \cup (DOMAIN fs') :
              ~IsPrefix(DATA_EXTRACTED_DIR_PATH, p) =>
                  (p \in DOMAIN fs /\ p \in DOMAIN fs' /\ fs'[p] = fs[p])
      ]_vars

\* A run wrote an output, and the archive it read is still a gzip archive.
C14_Witness ==
    /\ lastCell = "extract"
    /\ \E e \in Extractions :
          /\ Exists(fs, e[2])
          /\ fs[e[2]].content = Gunzip(fs[e[1]].content)
          /\ fs[e[1]].content.fmt = "gzip"

\* The archives of the "Extracting" lines, in the order they were printed.
ExtractingOrder ==
    LET IsExtracting(l) == l[1] = "Extracting"
        ls == SelectSeq(stdout, IsExtracting)
    IN  [i \in 1..Len(ls) |-> ls[i][2]]

(* C16 as stated: the archives are processed in ascending lexicographic     *)
(* order of their full path strings, whatever the directory and file names. *)
C16_FullPathStringOrder ==
    \A i, j \in 1..Len(ExtractingOrder) :
        i < j => StrLess(PathChars(ExtractingOrder[i]), PathChars(ExtractingOrder[j]))

(* C16 amended: the archives are processed in ascending order of their path *)
(* components, the directory name first and the file name second, each      *)
(* compared as a string; this is not the order of the full path strings     *)
(* when a directory name continues another with a character below "/".      *)
C16_PathPartsOrder ==
    \A i, j \in 1..Len(ExtractingOrder) :
        i < j =>
            LET p == ExtractingOrder[i]
                q == ExtractingOrder[j]
            IN  \/ StrLess(Chars(p[2]), Chars(q[2]))
                \/ p[2] = q[2] /\ StrLess(Chars(p[3]), Chars(q[3]))

\* Two archives were processed in an order that is not the order of their
\* path strings.
C16_Witness ==
    /\ extractStatus = "done"
    /\ Len(ExtractingOrder) = 2
    /\ StrLess(PathChars(ExtractingOrder[2]), PathChars(ExtractingOrder[1]))

(* C17: a decompression failure aborts only the archive being processed:    *)
(* the valid archives are still extracted.                                  *)
C17_FailureAbortsOneArchive ==
    extractStatus = "BadGzipFile" =>
        \A p \in ProcessedArchives(fs) :
            GunzipOk(fs[p].content) => HasCounterpart(fs, p)

\* The output path of the last "Extracting" line.
FailedOutput ==
    LET idx == { i \in 1..Len(stdout) : stdout[i][1] = "Extracting" }
        last == CHOOSE i \in idx : \A j \in idx : j <= i
    IN  stdout[last][3]

(* C20: if decompressing an archive fails and its output file was there     *)
(* before the run, the earlier output is not preserved: the file is opened  *)
(* for writing before the archive is read and is left empty.                *)
C20_FailedArchiveTruncatesOutput ==
    [][ (lastCell' = "extract" /\ extractStatus' = "BadGzipFile"
           /\ Exists(fs, FailedOutput')) =>
          fs'[Resolve(fs', FailedOutput')].content = EmptyContent
      ]_vars

\* The one archive of the run was corrupt; its output was there and is
\* empty now.
C20_Witness ==
    /\ extractStatus = "BadGzipFile"
    /\ Cardinality(Extractions) = 1
    /\ Overridings /= {}
    /\ fs[FailedOutput].content = EmptyContent

-----------------------------------------------------------------------------
(* Acquire: the download cell (%%sh)                                        *)

\* How often the download cell is run.
MaxRuns == 2

\* Latest Last-Modified stamp of a remote archive.
MaxStamp == 2

\* ${DATA_DIR}/srem.psi.ch/datarepo/V0/irem, where wget -P mirrors the URL.
MirrorPath == <<"srem.psi.ch", "datarepo", "V0", "irem">>

WgetLogPath == <<"wget.log">>

\* The archives and the directories below http://srem.psi.ch/datarepo/V0/irem/.
RemotePaths == {<<"a", "x.cdf.gz">>, <<"a-b", "x.cdf.gz">>}
RemoteDirs == {<<"a">>, <<"a-b">>, <<"summaryplots">>}

Local(p) == MirrorPath \o p

\* ln -s target dest
LnS(f, target, dest) ==
    IF dest \notin DOMAIN f THEN Put(f, dest, LinkNode(target))
    ELSE IF IsDir(f, dest)
    THEN LET inside == Append(Resolve(f, dest), target[Len(target)])
         IN  IF inside \in DOMAIN f THEN f ELSE Put(f, inside, LinkNode(target))
    ELSE f

\* mkdir -p of the data directories, then the symlink block.
PrepareDirs(f) ==
    LET f1 == MkdirP(MkdirP(MkdirP(MkdirP(f, <<>>), <<"extracted">>),
                            <<"hdf5">>), <<"csv">>)
    IN  IF ~IsLink(f1, DATA_RAW_DIR)
        THEN LnS(f1, MirrorPath, Resolve(f1, DATA_RAW_DIR))
        ELSE f1

\* wget without --timestamping: every file is retrieved again.
ShouldFetch_always(f, p, rnode) == TRUE

\* wget --timestamping: retrieve a file that is missing locally or whose
\* remote stamp is newer than the local one.
ShouldFetch(f, p, rnode) ==
    Local(p) \notin DOMAIN f \/ rnode.ts > f[Local(p)].ts

LogLine(url, result) == [url |-> url, result |-> result]

\* wget --recursive over the archives, one after the other.
\* st = [fs, log]; outcome[p] tells whether the transfer of p succeeds.
RECURSIVE WgetFiles(_, _, _, _)
WgetFiles(st, rem, outcome, todo) ==
    IF todo = <<>> THEN st
    ELSE LET p == Head(todo)
             nxt == IF ~ShouldFetch(st.fs, p, rem[p]) THEN st
                    ELSE IF outcome[p] = "ok"
                    THEN [fs |-> Put(MkdirP(st.fs, Parent(Local(p))), Local(p),
                                     FileNode(rem[p].ts, rem[p].content)),
                          log |-> Append(st.log, LogLine(p, "saved"))]
                    ELSE [fs |-> st.fs,
                          log |-> Append(st.log, LogLine(p, "failed"))]
         IN  WgetFiles(nxt, rem, outcome, Tail(todo))

\* The directories wget leaves behind once it has fetched their listings.
RECURSIVE MkdirAll(_, _)
MkdirAll(f, dirs) ==
    IF dirs = {} THEN f
    ELSE LET d == CHOOSE x \in dirs : TRUE
         IN  MkdirAll(MkdirP(f, d), dirs \ {d})

\* wget ... -A gz URL -P ${DATA_DIR} 2> ${DATA_DIR}/wget.log
\* net: whether the site can be reached at all.
Wget(f, rem, net, outcome) ==
    IF ~net
    THEN [fs |-> f, log |-> <<LogLine(<<>>, "failed")>>]
    ELSE WgetFiles([fs |-> MkdirAll(f, {MirrorPath} \cup {Local(d) : d \in RemoteDirs}),
                    log |-> <<>>],
                   rem, outcome, SortedPaths(DOMAIN rem))

\* rm -rf ${DATA_DIR}/irem/raw/summaryplots
SummaryPlotsToRemove == <<"irem", "raw", "summaryplots">>

\* The whole cell: sh has no "set -e", every command runs.
AcquireScript(f, rem, net, outcome) ==
    LET w == Wget(PrepareDirs(f), rem, net, outcome)
        logged == Put(w.fs, WgetLogPath,
                      FileNode(0, [fmt |-> "text", data |-> w.log]))
    IN  RmRf(logged, SummaryPlotsToRemove)

AcquireCell ==
    /\ acquireRuns < MaxRuns
    /\ \E net \in BOOLEAN : \E outcome \in [DOMAIN remote -> {"ok", "fail"}] :
          fs' = AcquireScript(fs, remote, net, outcome)
    /\ acquireRuns' = acquireRuns + 1
    /\ lastCell' = "acquire"
    /\ UNCHANGED <<remote, stdout, extractStatus,
                   df, hdf5Dir, df_hdf, csvDir, df_csv, parseErr, printed, ingestVars, trajVars>>

\* The repository publishes a newer version of an archive.
RemoteUpdate ==
    /\ \E p \in DOMAIN remote :
          /\ remote[p].ts < MaxStamp
          /\ remote' = [remote EXCEPT
                           ![p] = FileNode(remote[p].ts + 1,
                                           GzipOf(<<p, remote[p].ts + 1>>))]
    /\ UNCHANGED <<fs, acquireRuns, stdout, extractStatus, persistVars, ingestVars, trajVars>>

\* Nothing below DATA_DIR yet, or a raw directory the user made by hand.
FreshFs == [p \in {} |-> None]
RawDirFs == MkdirP([p \in {} |-> None], DATA_RAW_DIR)

Init ==
    /\ TrajIdle
    /\ fs \in {FreshFs, RawDirFs}
    /\ remote = [p \in RemotePaths |-> FileNode(1, GzipOf(<<p, 1>>))]
    /\ acquireRuns = 0
    /\ stdout = <<>>
    /\ extractStatus = ""
    /\ df = None
    /\ PersistIdle
    /\ IngestIdle

Next == AcquireCell \/ RemoteUpdate \/ ExtractCell

Spec == Init /\ [][Next]_vars

-----------------------------------------------------------------------------
WgetLog(f) == IF WgetLogPath \in DOMAIN f THEN f[WgetLogPath].content.data ELSE <<>>

LoggedAs(f, result) ==
    { WgetLog(f)[i].url : i \in {j \in 1..Len(WgetLog(f)) : WgetLog(f)[j].result = result} }

\* The files and directories of the mirror.
MirrorTree(f) == [q \in {x \in DOMAIN f : IsPrefix(MirrorPath, x)} |-> f[q]]

UpToDate(f, rem) ==
    \A p \in DOMAIN rem : Local(p) \in DOMAIN f /\ f[Local(p)].ts >= rem[p].ts

(* C6: if some or all downloads fail during Acquire, the failure is written *)
(* to wget.log, the cell still runs its remaining commands, and the later   *)
(* stages complete without raising an error, on the files that are present. *)
C6_DownloadFailureNotFatal ==
    (acquireRuns > 0 /\ LoggedAs(fs, "failed") /= {} /\ lastCell = "extract")
    => extractStatus = "done"

C8_RawIsLinkToMirror ==
    acquireRuns > 0 =>
        /\ IsLink(fs, DATA_RAW_DIR)
        /\ Resolve(fs, DATA_RAW_DIR) = MirrorPath

\* <data root>/raw/summaryplots
RawSummaryPlots == Append(DATA_RAW_DIR, "summaryplots")

(* C18: after the download cell has finished, the summary-plots directory   *)
(* of the mirrored tree, <data root>/raw/summaryplots, does not exist: the  *)
(* cell's last command removes it.                                          *)
C18_SummaryPlotsRemoved ==
    (acquireRuns > 0 /\ lastCell = "acquire") => ~Exists(fs, RawSummaryPlots)

-----------------------------------------------------------------------------
\* The science handles the option cell executed last has returned.
LatestOptionHandles ==
    IF lastCell = "option3" THEN sc_cdf[1] ELSE sc_cdfs[1]

(* C19: for any order and subset of executed option cells, the handles the  *)
(* convert cell passes to the conversion are the ones the most recently     *)
(* executed option cell has returned.                                       *)
C19_ConvertUsesLatestOption ==
    [][ (lastCell \in {"option1", "option2", "option3"} /\ lastCell' = "convert") =>
          df' = Some(normalize(LatestOptionHandles, dedupKeep))
      ]_vars

-----------------------------------------------------------------------------
(* Ingest on a directory that holds malformed files                         *)

\* Most malformed files of the directory.
MaxMalformed == 1

\* A day has left nothing, or a science and a housekeeping file.
ReadDayOptions == {"none", "both"}

\* The directory with the files of bad made malformed.
Damage(dir, bad) ==
    [n \in DOMAIN dir |-> IF n \in bad THEN Malformed ELSE dir[n]]

InitRead ==
    /\ TrajIdle
    /\ \E choice \in [1..MaxDate -> ReadDayOptions] :
          \E bad \in SUBSET (DOMAIN DirOf(choice)) :
              /\ Cardinality(bad) <= MaxMalformed
              /\ extractedCdfs = Damage(DirOf(choice), bad)
    /\ from_date \in 1..MaxDate
    /\ to_date \in 1..MaxDate
    /\ dedupKeep \in {"first", "last"}
    /\ sc_cdfs = None /\ hk_cdfs = None
    /\ sc_cdf = None /\ hk_cdf = None
    /\ df = None
    /\ PersistIdle
    /\ FsIdle

NextRead ==
    ReadOption1Cell \/ ReadOption2Cell \/ ReadOption3Cell \/ ConvertCell

SpecRead == InitRead /\ [][NextRead]_vars

\* The files of a kind an option cell is to read.
TargetFiles(opt, kind) ==
    { n \in DOMAIN extractedCdfs :
        KindOf(n) = kind /\ (opt = "option1" \/ InWindow(n)) }

\* The name an option cell binds to the handles of a kind.
HeldHandles(opt, kind) ==
    IF opt = "option3"
    THEN (IF kind = "science" THEN sc_cdf ELSE hk_cdf)
    ELSE (IF kind = "science" THEN sc_cdfs ELSE hk_cdfs)

OneHandlePerFile(handles, files) ==
    /\ Len(handles) = Cardinality(files)
    /\ {handles[i].path : i \in 1..Len(handles)} = files
    /\ \A i \in 1..Len(handles) :
          handles[i].records = extractedCdfs[handles[i].path]

OptionCells == {"option1", "option2", "option3"}

(* C13: a read returns exactly one handle per input file; if one of its     *)
(* input files is malformed the read fails and the error is what the cell   *)
(* shows the user (nothing catches or retries it); no list of handles that  *)
(* leaves the malformed file out, or holds it, is ever bound.               *)
C13_ReadOneHandlePerFileOrFails ==
    /\ lastCell \in OptionCells =>
          /\ printed \in {"lengths", "ParseError"}
          /\ printed = "ParseError" <=>
                \E k \in Kinds : \E n \in TargetFiles(lastCell, k) :
                    extractedCdfs[n] = Malformed
          /\ printed = "lengths" =>
                \A k \in Kinds :
                    /\ HeldHandles(lastCell, k) /= None
                    /\ OneHandlePerFile(HeldHandles(lastCell, k)[1],
                                        TargetFiles(lastCell, k))
    /\ \A opt \in OptionCells : \A k \in Kinds :
          HeldHandles(opt, k) /= None =>
              \A i \in 1..Len(HeldHandles(opt, k)[1]) :
                  HeldHandles(opt, k)[1][i].records /= Malformed

\* The option 1 cell has read two science files, one handle each, and has
\* then raised on a malformed housekeeping file.
C13_Witness ==
    /\ lastCell = "option1"
    /\ printed = "ParseError"
    /\ sc_cdfs /= None
    /\ OneHandlePerFile(sc_cdfs[1], TargetFiles("option1", "science"))
    /\ Len(sc_cdfs[1]) >= 2
    /\ hk_cdfs = None
    /\ \E n \in TargetFiles("option1", "housekeeping") :
          extractedCdfs[n] = Malformed

-----------------------------------------------------------------------------
(* Persist & Reload: the text store                                         *)
(* A cell value is a float, held as its count of units in the last place.   *)

CsvPath == "example.csv"

\* The decimal text of a float: the shortest digits that name it.
FloatText(v) == <<"repr", v>>

\* The text of a time stamp.
TimeText(t) == <<"time", t>>

\* write_csv: a header row of the column names, then one row per time stamp.
write_csv(dir, t, path) ==
    Put(dir, path,
        [header |-> t.columns,
         rows |-> [r \in 1..Len(t.index) |->
                      [time |-> TimeText(t.index[r]),
                       cells |-> [c \in 1..Len(t.columns) |->
                                     FloatText(t.data[r][c])]]]])

\* How far, in units in the last place, the parsed float may lie from the
\* float the digits name ("1.4143094841930115 vs 1.4143094841930117").
ParseUlps == 1

\* The errors a parse may make, in units in the last place.
ParseErrors == (0 - ParseUlps)..ParseUlps

\* The values a cell may hold.
CellValues == UNION { {v[i] : i \in 1..Len(v)} : v \in RowValues }

\* A parser of single precision: twice as far off.
ParseFloat_single(text, perr) == text[2] + 2 * perr[text[2]]

\* The float the parser returns for the digits: the same for the same text.
ParseFloat(text, perr) == text[2] + perr[text[2]]

ParseTime(text) == text[2]

\* read_csv: the table of the file, every cell parsed.
read_csv(dir, path, perr) ==
    LET f == dir[path]
    IN  [index |-> [r \in 1..Len(f.rows) |-> ParseTime(f.rows[r].time)],
         columns |-> f.header,
         data |-> [r \in 1..Len(f.rows) |->
                      [c \in 1..Len(f.header) |->
                          ParseFloat(f.rows[r].cells[c], perr)]]]

\* radem.handlers.write_csv(df, DATA_CSV_DIR / "example.csv")
WriteCsvCell ==
    /\ df /= None
    /\ csvDir' = write_csv(csvDir, df[1], CsvPath)
    /\ printed' = ""
    /\ lastCell' = "write_csv"
    /\ UNCHANGED <<df, df_csv, parseErr, hdf5Dir, df_hdf, ingestVars, fsVars, trajVars>>

\* df_csv = radem.handlers.read_csv(DATA_CSV_DIR / "example.csv")
ReadCsvCell ==
    /\ lastCell' = "read_csv"
    /\ UNCHANGED <<df, csvDir, parseErr, hdf5Dir, df_hdf, ingestVars, fsVars, trajVars>>
    /\ IF CsvPath \notin DOMAIN csvDir
       THEN printed' = "FileNotFoundError" /\ UNCHANGED df_csv
       ELSE /\ df_csv' = Some(read_csv(csvDir, CsvPath, parseErr))
            /\ printed' = ""

InitText ==
    /\ TrajIdle
    /\ df \in {Some(t) : t \in Tables}
    /\ hdf5Dir = [f \in {} |-> None]
    /\ df_hdf = None
    /\ printed = ""
    /\ lastCell = "convert"
    /\ csvDir = [f \in {} |-> None]
    /\ df_csv = None
    /\ parseErr \in [CellValues -> ParseErrors]
    /\ IngestIdle
    /\ FsIdle

NextText == WriteCsvCell \/ ReadCsvCell

SpecText == InitText /\ [][NextText]_vars

\* |a - b|
AbsDiff(a, b) == IF a >= b THEN a - b ELSE b - a

\* Two tables with the same labels whose cells differ by at most tol.
WithinTolerance(a, b, tol) ==
    /\ a.index = b.index
    /\ a.columns = b.columns
    /\ Len(a.data) = Len(b.data)
    /\ \A r \in 1..Len(a.data) : \A c \in 1..Len(a.columns) :
          AbsDiff(a.data[r][c], b.data[r][c]) <= tol

-----------------------------------------------------------------------------
(* The trajectories notebook: the JUICE section and the INTEGRAL section    *)
(* assign the same globals START_DATE, END_DATE and INTERVAL_TIME, and each *)
(* defines a trajectory builder whose parameters default to them.           *)

\* datetime(year, month, day)
datetime(year, month, day) == <<year, month, day>>

\* timedelta(hours=h), kept as its number of seconds
timedelta(hours) == hours * 3600

\* f'{interval_time.total_seconds() / 3600} hours': the quotient with its
\* fractional part (in 3600ths of an hour) and the unit.
IntervalText(interval_time) ==
    [hours |-> interval_time \div 3600,
     fraction |-> interval_time % 3600,
     unit |-> "hours"]

JuiceKernels == [dir |-> "../data/spice", mk |-> "5.1 150lb_23_1", version |-> "v451"]
IntegralKernels == [dir |-> "../data/irem/spice", mk |-> "ops", version |-> "v001"]

JuiceStart == datetime(2023, 9, 1)
JuiceEnd == datetime(2033, 9, 1)
JuiceInterval == timedelta(12)
IntegralStart == datetime(2013, 9, 1)
IntegralEnd == datetime(2014, 9, 1)
IntegralInterval == timedelta(12)

\* build_juice_tour(target): the kernel globals are read when it is called.
build_juice_tour(target, kernels) ==
    [spacecraft |-> "JUICE", instrument |-> "RADEM_PSD", target |-> target,
     kernels_dir |-> kernels.dir, mk |-> kernels.mk, version |-> kernels.version]

\* build_irem_tour(target)
build_irem_tour(target, kernels) ==
    [spacecraft |-> "INTEGRAL", instrument |-> "", target |-> target,
     kernels_dir |-> kernels.dir, mk |-> kernels.mk, version |-> kernels.version]

\* tour[start: stop: step]: the trajectory of the tour over the window.
TourSlice(tour, start, stop, step) ==
    [tour |-> tour, start |-> start, stop |-> stop, step |-> step]

\* The body of build_trajectory.
build_trajectory(tour, start_date, end_date, interval_time) ==
    TourSlice(tour, start_date, end_date, IntervalText(interval_time))

\* The body of build_irem_trajectory.
build_irem_trajectory(tour, start_date, end_date, interval_time) ==
    TourSlice(tour, start_date, end_date, IntervalText(interval_time))

\* A def statement: the function named name exists from now on, with dflt
\* as the values of its default parameters.
Define(fns, name, dflt) ==
    [n \in DOMAIN fns \cup {name} |-> IF n = name THEN dflt ELSE fns[n]]

\* The default expressions of the two builders, evaluated now.
DefaultExpressions == <<START_DATE[1], END_DATE[1], INTERVAL_TIME[1]>>

\* Late binding: the values the globals have when the function is called.
BoundDefaults_at_call(name) == DefaultExpressions

\* What a call of the function named name uses for the parameters it omits:
\* the values stored by its def statement.
BoundDefaults(name) == defaults[name]

\* What no cell of the trajectories notebook assigns.
trajFixed == <<df, hdf5Dir, df_hdf, csvDir, df_csv, parseErr, ingestVars, fsVars>>

\* The cell of lines 99-105.
JuiceConfigCell ==
    /\ JUICE_KERNELS' = Some(JuiceKernels)
    /\ START_DATE' = Some(JuiceStart)
    /\ END_DATE' = Some(JuiceEnd)
    /\ INTERVAL_TIME' = Some(JuiceInterval)
    /\ lastCell' = "juice_config"
    /\ printed' = ""
    /\ UNCHANGED <<INTEGRAL_KERNELS, defaults, sun_tour, sun_traj, trajFixed>>

\* The cell of lines 345-351.
IntegralConfigCell ==
    /\ INTEGRAL_KERNELS' = Some(IntegralKernels)
    /\ START_DATE' = Some(IntegralStart)
    /\ END_DATE' = Some(IntegralEnd)
    /\ INTERVAL_TIME' = Some(IntegralInterval)
    /\ lastCell' = "integral_config"
    /\ printed' = ""
    /\ UNCHANGED <<JUICE_KERNELS, defaults, sun_tour, sun_traj, trajFixed>>

\* The def of a tour builder and then the def of a trajectory builder: the
\* second def evaluates its default expressions and raises NameError when
\* the globals are not bound, after the first def is done.
HelperDefs(tour_fn, traj_fn) ==
    IF START_DATE = None
    THEN /\ defaults' = Define(defaults, tour_fn, <<>>)
         /\ printed' = "NameError"
    ELSE /\ defaults' = Define(Define(defaults, tour_fn, <<>>),
                               traj_fn, DefaultExpressions)
         /\ printed' = ""

\* The cell of lines 121-141.
JuiceHelpersCell ==
    /\ lastCell' = "juice_helpers"
    /\ HelperDefs("build_juice_tour", "build_trajectory")
    /\ UNCHANGED <<START_DATE, END_DATE, INTERVAL_TIME, JUICE_KERNELS,
                   INTEGRAL_KERNELS, sun_tour, sun_traj, trajFixed>>

\* The cell of lines 367-387.
IntegralHelpersCell ==
    /\ lastCell' = "integral_helpers"
    /\ HelperDefs("build_irem_tour", "build_irem_trajectory")
    /\ UNCHANGED <<START_DATE, END_DATE, INTERVAL_TIME, JUICE_KERNELS,
                   INTEGRAL_KERNELS, sun_tour, sun_traj, trajFixed>>

\* The cell of lines 164-172.
JuiceCalcCell ==
    /\ lastCell' = "juice_calc"
    /\ UNCHANGED <<START_DATE, END_DATE, INTERVAL_TIME, JUICE_KERNELS,
                   INTEGRAL_KERNELS, defaults, trajFixed>>
    /\ IF "build_juice_tour" \notin DOMAIN defaults \/ JUICE_KERNELS = None
       THEN printed' = "NameError" /\ UNCHANGED <<sun_tour, sun_traj>>
       ELSE /\ sun_tour' = Some(build_juice_tour("SUN", JUICE_KERNELS[1]))
            /\ IF "build_trajectory" \notin DOMAIN defaults
               THEN printed' = "NameError" /\ UNCHANGED sun_traj
               ELSE /\ \E d \in {BoundDefaults("build_trajectory")} :
                          sun_traj' = Some(build_trajectory(sun_tour'[1],
                                                            d[1], d[2], d[3]))
                    /\ printed' = ""

\* The cell of lines 403-411.
IntegralCalcCell ==
    /\ lastCell' = "integral_calc"
    /\ UNCHANGED <<START_DATE, END_DATE, INTERVAL_TIME, JUICE_KERNELS,
                   INTEGRAL_KERNELS, defaults, trajFixed>>
    /\ IF "build_irem_tour" \notin DOMAIN defaults \/ INTEGRAL_KERNELS = None
       THEN printed' = "NameError" /\ UNCHANGED <<sun_tour, sun_traj>>
       ELSE /\ sun_tour' = Some(build_irem_tour("SUN", INTEGRAL_KERNELS[1]))
            /\ IF "build_irem_trajectory" \notin DOMAIN defaults
               THEN printed' = "NameError" /\ UNCHANGED sun_traj
               ELSE /\ \E d \in {BoundDefaults("build_irem_trajectory")} :
                          sun_traj' = Some(build_irem_trajectory(sun_tour'[1],
                                                                 d[1], d[2], d[3]))
                    /\ printed' = ""

\* The notebook after its import cell: no global of the two sections is
\* bound and no helper is defined.
InitTrajectory ==
    /\ TrajIdle
    /\ df = None
    /\ PersistIdle
    /\ IngestIdle
    /\ FsIdle

NextTrajectory ==
    \/ JuiceConfigCell
    \/ JuiceHelpersCell
    \/ JuiceCalcCell
    \/ IntegralConfigCell
    \/ IntegralHelpersCell
    \/ IntegralCalcCell

SpecTrajectory == InitTrajectory /\ [][NextTrajectory]_vars

\* The window and the sampling interval a trajectory was computed with.
WindowOf(traj) == <<traj.start, traj.stop, traj.step>>

\* The window a builder computes from a tuple of default values.
WindowFrom(dflt) == <<dflt[1], dflt[2], IntervalText(dflt[3])>>

TrajectoryBuilders == {"build_trajectory", "build_irem_trajectory"}

(* C21: the defaults of build_trajectory and of build_irem_trajectory are   *)
(* the values START_DATE, END_DATE and INTERVAL_TIME had when the defining  *)
(* cell was executed. A step that reassigns the globals leaves the defaults *)
(* of every function already defined as they were; the defaults of a        *)
(* builder change only to the values the globals have at that step; and a   *)
(* call cell computes sun_traj over the window of the stored defaults of    *)
(* its builder, whatever the globals are by then.                           *)
C21_DefaultsBoundAtDefinition ==
    [][ /\ <<START_DATE, END_DATE, INTERVAL_TIME>>' /= <<START_DATE, END_DATE, INTERVAL_TIME>>
           => defaults' = defaults
        /\ \A f \in TrajectoryBuilders :
              (/\ f \in DOMAIN defaults'
               /\ (f \notin DOMAIN defaults \/ defaults'[f] /= defaults[f]))
              => /\ START_DATE /= None /\ END_DATE /= None /\ INTERVAL_TIME /= None
                 /\ defaults'[f] = <<START_DATE[1], END_DATE[1], INTERVAL_TIME[1]>>
        /\ (lastCell' = "juice_calc" /\ printed' = "")
              => /\ sun_traj' /= None
                 /\ WindowOf(sun_traj'[1]) = WindowFrom(defaults["build_trajectory"])
        /\ (lastCell' = "integral_calc" /\ printed' = "")
              => /\ sun_traj' /= None
                 /\ WindowOf(sun_traj'[1]) = WindowFrom(defaults["build_irem_trajectory"])
      ]_vars

\* build_trajectory was called after the INTEGRAL section reassigned the
\* globals and defined build_irem_trajectory: the trajectory has the JUICE
\* window, the globals and the defaults of build_irem_trajectory have the
\* INTEGRAL one.
C21_Witness ==
    /\ lastCell = "juice_calc" /\ printed = ""
    /\ START_DATE = Some(IntegralStart) /\ END_DATE = Some(IntegralEnd)
    /\ "build_irem_trajectory" \in DOMAIN defaults
    /\ defaults["build_irem_trajectory"] = <<IntegralStart, IntegralEnd, IntegralInterval>>
    /\ sun_traj /= None
    /\ sun_traj[1].start = JuiceStart /\ sun_traj[1].stop = JuiceEnd
    /\ sun_traj[1].start /= START_DATE[1]

====
